---- MODULE Spec2Model ----
(***************************************************************************)
(* A model of the UFDUR pipeline: the pivot-cache extractor                *)
(* (scripts/extract_ufdur.py), the quarter combiner                        *)
(* (scripts/scripts/combine_quarters.py), the downloader's tracker         *)
(* (scripts/check_and_download.py) and the pipeline runner                 *)
(* (scripts/run_pipeline.py).                                              *)
(*                                                                         *)
(* Python values are records tagged by their type, a raised exception is   *)
(* a result with ok = FALSE.  Archives are well-formed zip/XML containers. *)
(***************************************************************************)
EXTENDS Integers, Sequences, FiniteSets, TLC

VARIABLES
    xlsx,       \* the input archive: definitions and record streams of caches 1, 2
    op,         \* which function of extract_ufdur.py has run on xlsx
    ret,        \* what it returned (or raised)
    warned,     \* whether the "could not auto-detect" warning was printed
    out_csv,    \* the file <output_prefix>_combined.csv
    fs,         \* the directories and CSV files the combiner works on
    comb,       \* the latest combine_quarters call: arguments, return, summary
    tracker_file,   \* data/downloaded_files.json
    run         \* the latest check_and_download run, and what run_pipeline did with it

extract_vars == <<xlsx, op, ret, warned, out_csv>>
combine_vars == <<fs, comb>>
download_vars == <<tracker_file, run>>
vars == <<xlsx, op, ret, warned, out_csv, fs, comb, tracker_file, run>>

(***************************************************************************)
(* Bounds                                                                  *)
(***************************************************************************)
\* longest field list of a cache definition in the extraction runs
MaxFields == 2
\* longest shared-item dictionary in the decoding runs
MaxDict == 2
\* most rows of a period file before the first merge
MaxRows == 1
\* most rows of a master file: no merge is started that would write more
MaxMasterRows == 3
\* most UFDUR links on the page of one downloader run
MaxLinks == 2

(***************************************************************************)
(* Generic helpers                                                         *)
(***************************************************************************)
Range(s) == {s[i] : i \in DOMAIN s}

SeqsUpTo(S, n) == UNION {[1..k -> S] : k \in 0..n}

NoDup(s) == \A i, j \in DOMAIN s : s[i] = s[j] => i = j

Max(S) == CHOOSE m \in S : \A k \in S : k <= m

RECURSIVE Flatten(_)
Flatten(ss) == IF ss = <<>> THEN <<>> ELSE Head(ss) \o Flatten(Tail(ss))

(***************************************************************************)
(* Python values and results                                               *)
(***************************************************************************)
NoneV == [t |-> "None"]
NaN == [t |-> "nan"]
Str(s) == [t |-> "str", s |-> s]
Float(n) == [t |-> "float", n |-> n]
Bool(b) == [t |-> "bool", b |-> b]

Ok(v) == [ok |-> TRUE, val |-> v]
Raise(e) == [ok |-> FALSE, exc |-> e]

AllOk(rs) == \A i \in DOMAIN rs : rs[i].ok
Vals(rs) == [i \in DOMAIN rs |-> rs[i].val]
FirstExc(rs) ==
    LET i == CHOOSE k \in DOMAIN rs : ~rs[k].ok /\ \A j \in 1..(k-1) : rs[j].ok
    IN  Raise(rs[i].exc)
\* a list built element by element, where any element may raise
Collect(rs) == IF AllOk(rs) THEN Ok(Vals(rs)) ELSE FirstExc(rs)

(***************************************************************************)
(* Literals of the XML attribute v, and Python's int() and float() on them *)
(***************************************************************************)
IntRange == (0 - MaxDict - 1)..(MaxDict + 1)
IntTexts == {ToString(i) : i \in IntRange}
IntOf(s) == CHOOSE i \in IntRange : ToString(i) = s

\* item.get('v'): the attribute's text, None when the attribute is missing
Get(item) == IF "v" \in DOMAIN item THEN Str(item.v) ELSE NoneV

\* float(item.get('v'))
PyFloat(g) ==
    IF g.t # "str" THEN Raise("TypeError")
    ELSE IF g.s \in IntTexts THEN Ok(Float(IntOf(g.s)))
    ELSE Raise("ValueError")

\* int(item.get('v'))
PyInt(g) ==
    IF g.t # "str" THEN Raise("TypeError")
    ELSE IF g.s \in IntTexts THEN Ok(IntOf(g.s))
    ELSE Raise("ValueError")

\* list[idx] for idx < len(list): a negative idx counts from the end
PyIndex(list, idx) ==
    IF idx >= 0 THEN Ok(list[idx + 1])
    ELSE IF 0 - idx <= Len(list) THEN Ok(list[Len(list) + idx + 1])
    ELSE Raise("IndexError")

(***************************************************************************)
(* extract_pivot_cache                                                     *)
(***************************************************************************)
\* one element of <sharedItems>
SharedItemValue(item) ==
    CASE item.tag = "s" -> Ok(Get(item))
      [] item.tag = "n" -> PyFloat(Get(item))
      [] item.tag = "m" -> Ok(NoneV)
      [] item.tag = "b" -> Ok(Bool(Get(item) = Str("1")))
      [] OTHER -> Ok(Get(item))

\* the values of one field's <sharedItems>
SharedValues(items) == Collect([i \in DOMAIN items |-> SharedItemValue(items[i])])

\* shared_items: field index (from 0) -> values, for the fields that have a dictionary
SharedItems(fields) ==
    LET has == {i \in DOMAIN fields : "sharedItems" \in DOMAIN fields[i]}
        rs == [i \in has |-> SharedValues(fields[i].sharedItems)]
    IN  IF \A i \in has : rs[i].ok
        THEN Ok([k \in {i - 1 : i \in has} |-> rs[k + 1].val])
        ELSE Raise(rs[CHOOSE i \in has : ~rs[i].ok /\ \A j \in has : j < i => rs[j].ok].exc)

\* one entry of a record <r>, at position field_idx
RecordItemValue(item, field_idx, shared_items) ==
    CASE item.tag = "x" ->
            LET idx == PyInt(Get(item))
            IN  IF ~idx.ok THEN idx
                ELSE IF field_idx \in DOMAIN shared_items
                        /\ idx.val < Len(shared_items[field_idx])
                     THEN PyIndex(shared_items[field_idx], idx.val)
                     ELSE Ok(NoneV)
      [] item.tag = "n" -> PyFloat(Get(item))
      [] item.tag = "s" -> Ok(Get(item))
      [] item.tag = "m" -> Ok(NoneV)
      [] OTHER -> Ok(Get(item))

RecordRow(record, shared_items) ==
    Collect([i \in DOMAIN record |-> RecordItemValue(record[i], i - 1, shared_items)])

\* pd.DataFrame(data, columns=field_names): short rows are padded with None,
\* and the widest row must be as wide as the header
DataFrame(data, columns) ==
    IF data = <<>> THEN Ok([columns |-> columns, rows |-> <<>>])
    ELSE LET w == Max({Len(data[i]) : i \in DOMAIN data})
         IN  IF w # Len(columns) THEN Raise("ValueError")
             ELSE Ok([columns |-> columns,
                      rows |-> [i \in DOMAIN data |->
                                 [j \in 1..w |-> IF j <= Len(data[i]) THEN data[i][j]
                                                 ELSE NoneV]]])

ExtractPivotCache(x, cache_num) ==
    IF ~x.defs[cache_num].present THEN Raise("FileNotFoundError")
    ELSE LET cache_fields == x.defs[cache_num].fields
             field_names == [i \in DOMAIN cache_fields |-> cache_fields[i].name]
             shared_items == SharedItems(cache_fields)
         IN  IF ~shared_items.ok THEN shared_items
             ELSE IF ~x.recs[cache_num].present THEN Raise("KeyError")
             ELSE LET records == x.recs[cache_num].records
                      data == Collect([r \in DOMAIN records |->
                                         RecordRow(records[r], shared_items.val)])
                  IN  IF ~data.ok THEN data
                      ELSE DataFrame(data.val, field_names)

(***************************************************************************)
(* get_cache_fields, detect_cache_types                                    *)
(***************************************************************************)
GetCacheFields(x, cache_num) ==
    IF ~x.defs[cache_num].present THEN [none |-> TRUE]
    ELSE [none |-> FALSE,
          names |-> [i \in DOMAIN x.defs[cache_num].fields |->
                       x.defs[cache_num].fields[i].name]]

\* `fields and 'ClaimState' in fields`
HasClaimState(f) == ~f.none /\ f.names # <<>> /\ "ClaimState" \in Range(f.names)

\* detect_cache_types looking at cache 2 before cache 1
DetectCacheTypesCache2First(x) ==
    LET cache1_fields == GetCacheFields(x, 1)
        cache2_fields == GetCacheFields(x, 2)
    IN  IF HasClaimState(cache2_fields) THEN [main |-> 2, outliers |-> 1, warning |-> FALSE]
        ELSE IF HasClaimState(cache1_fields) THEN [main |-> 1, outliers |-> 2, warning |-> FALSE]
        ELSE [main |-> 1, outliers |-> 2, warning |-> TRUE]

\* detect_cache_types falling back without the warning
DetectCacheTypesSilent(x) ==
    LET cache1_fields == GetCacheFields(x, 1)
        cache2_fields == GetCacheFields(x, 2)
    IN  IF HasClaimState(cache1_fields) THEN [main |-> 1, outliers |-> 2, warning |-> FALSE]
        ELSE IF HasClaimState(cache2_fields) THEN [main |-> 2, outliers |-> 1, warning |-> FALSE]
        ELSE [main |-> 1, outliers |-> 2, warning |-> FALSE]

DetectCacheTypes(x) ==
    LET cache1_fields == GetCacheFields(x, 1)
        cache2_fields == GetCacheFields(x, 2)
    IN  IF HasClaimState(cache1_fields) THEN [main |-> 1, outliers |-> 2, warning |-> FALSE]
        ELSE IF HasClaimState(cache2_fields) THEN [main |-> 2, outliers |-> 1, warning |-> FALSE]
        ELSE [main |-> 1, outliers |-> 2, warning |-> TRUE]

(***************************************************************************)
(* DataFrames: a header that may repeat a label, and the rows under it     *)
(***************************************************************************)
HasCol(df, col) == col \in Range(df.columns)

\* the positions of label col in the header, ascending
PositionsOf(columns, col) ==
    SelectSeq([i \in 1..Len(columns) |-> i], LAMBDA i : columns[i] = col)

\* df[col] = v: every column labelled col is overwritten, a new label is appended
SetColumn(df, col, v) ==
    IF HasCol(df, col)
    THEN [columns |-> df.columns,
          rows |-> [r \in DOMAIN df.rows |->
                     [j \in DOMAIN df.columns |->
                        IF df.columns[j] = col THEN v ELSE df.rows[r][j]]]]
    ELSE [columns |-> Append(df.columns, col),
          rows |-> [r \in DOMAIN df.rows |-> Append(df.rows[r], v)]]

\* df[cols]: for each label in turn, every column carrying it
SelectColumns(df, cols) ==
    IF \E k \in DOMAIN cols : ~HasCol(df, cols[k]) THEN Raise("KeyError")
    ELSE LET pos == Flatten([k \in DOMAIN cols |-> PositionsOf(df.columns, cols[k])])
         IN  Ok([columns |-> [j \in DOMAIN pos |-> df.columns[pos[j]]],
                 rows |-> [r \in DOMAIN df.rows |->
                            [j \in DOMAIN pos |-> df.rows[r][pos[j]]]]])

\* pd.concat([a, b], ignore_index=True): equal headers are stacked as they are;
\* different headers are aligned on their union, which needs unique labels
Concat(a, b) ==
    IF a.columns = b.columns
    THEN Ok([columns |-> a.columns, rows |-> a.rows \o b.rows])
    ELSE IF ~NoDup(a.columns) \/ ~NoDup(b.columns) THEN Raise("InvalidIndexError")
    ELSE LET extra == SelectSeq(b.columns, LAMBDA c : c \notin Range(a.columns))
             union == a.columns \o extra
             Cell(df, r, c) == IF HasCol(df, c)
                               THEN df.rows[r][Head(PositionsOf(df.columns, c))]
                               ELSE NoneV
             Align(df) == [r \in DOMAIN df.rows |->
                             [j \in DOMAIN union |-> Cell(df, r, union[j])]]
         IN  Ok([columns |-> union, rows |-> Align(a) \o Align(b)])

\* one cell as df.to_csv writes it
CsvCell(v) ==
    CASE v.t = "None" -> ""
      [] v.t = "nan" -> ""
      [] v.t = "str" -> v.s
      [] v.t = "float" -> ToString(v.n) \o ".0"
      [] v.t = "bool" -> IF v.b THEN "True" ELSE "False"

\* df.to_csv(path, index=False): the header line and one line per row
ToCsv(df) ==
    [header |-> df.columns,
     lines |-> [r \in DOMAIN df.rows |->
                 [j \in DOMAIN df.rows[r] |-> CsvCell(df.rows[r][j])]]]

(***************************************************************************)
(* standardize_columns, extract_ufdur                                      *)
(***************************************************************************)
rename_map(col) ==
    CASE col = "TotalOrphanQTY" -> "TotalQty"
      [] col = "TotalOrphanDS" -> "TotalDS"
      [] col = "TotalOrphanRxCnt" -> "TotalRxCnt"
      [] col = "TotalOrphanThirtyDayEquiv" -> "ThirtyDayEquiv"
      [] OTHER -> col

all_columns ==
    <<"Qtr", "ClaimState", "DOD_UF_CLASS", "DSF", "ProductName",
      "SpecialtyDrugFlag", "point_of_service", "MTF", "MTFbranchofservice",
      "TotalQty", "TotalDS", "TotalRxCnt", "ThirtyDayEquiv", "Source">>

\* `if col not in df.columns: df[col] = v`
BackFill(df, col, v) == IF HasCol(df, col) THEN df ELSE SetColumn(df, col, v)

StandardizeColumns(df) ==
    LET renamed == [columns |-> [j \in DOMAIN df.columns |-> rename_map(df.columns[j])],
                    rows |-> df.rows]
        d1 == BackFill(renamed, "ClaimState", Str("AGGREGATED"))
        d2 == BackFill(d1, "MTF", Str(""))
    IN  BackFill(d2, "MTFbranchofservice", Str(""))

\* one try block of extract_ufdur: the side's frame, or None when anything raised
ExtractSide(x, cache_num, source) ==
    LET e == ExtractPivotCache(x, cache_num)
    IN  IF ~e.ok THEN [none |-> TRUE]
        ELSE [none |-> FALSE,
              df |-> SetColumn(StandardizeColumns(e.val), "Source", Str(source))]

RECURSIVE BackFillAll(_, _)
BackFillAll(df, cols) ==
    IF cols = <<>> THEN df
    ELSE BackFillAll(BackFill(df, Head(cols), Str("")), Tail(cols))

\* the canonical projection of a side that was extracted
Canonical(side) ==
    IF side.none THEN Ok(side)
    ELSE LET p == SelectColumns(BackFillAll(side.df, all_columns), all_columns)
         IN  IF p.ok THEN Ok([none |-> FALSE, df |-> p.val]) ELSE p

NoFile == [written |-> FALSE]

\* extract_ufdur(input_file, output_prefix): what it returns, the file it writes
\* and whether detection warned
ExtractUfdur(x) ==
    LET d == DetectCacheTypes(x)
        df_main == Canonical(ExtractSide(x, d.main, "MAIN"))
        df_outliers == Canonical(ExtractSide(x, d.outliers, "OUTLIERS"))
    IN  IF ~df_main.ok \/ ~df_outliers.ok
        THEN [ret |-> [kind |-> "raised"], csv |-> NoFile, warning |-> d.warning]
        ELSE IF ~df_main.val.none /\ ~df_outliers.val.none
        THEN LET df_combined == Concat(df_main.val.df, df_outliers.val.df)
             IN  IF df_combined.ok
                 THEN [ret |-> [kind |-> "table", df |-> df_combined.val],
                       csv |-> [written |-> TRUE, csv |-> ToCsv(df_combined.val)],
                       warning |-> d.warning]
                 ELSE [ret |-> [kind |-> "raised"], csv |-> NoFile, warning |-> d.warning]
        ELSE [ret |-> [kind |-> "None"], csv |-> NoFile, warning |-> d.warning]

(***************************************************************************)
(* Input archives                                                          *)
(***************************************************************************)
AbsentDef == [present |-> FALSE]
AbsentRecs == [present |-> FALSE]

FieldNames == {"ClaimState", "TotalQty", "TotalOrphanQTY", "Extra"}

\* field lists with unique names and no dictionary
Layouts == {[i \in DOMAIN l |-> [name |-> l[i]]] : l \in {s \in SeqsUpTo(FieldNames, MaxFields) : NoDup(s)}}

\* one record of n inline numbers; one record whose numbers do not parse
GoodRecord(n) == [i \in 1..n |-> [tag |-> "n", v |-> ToString(i % (MaxDict + 2))]]
BadRecord(n) == [i \in 1..n |-> [tag |-> "n", v |-> "abc"]]

LayoutCaches ==
    {[def |-> AbsentDef, recs |-> AbsentRecs]}
    \cup {[def |-> [present |-> TRUE, fields |-> f], recs |-> r] :
            f \in Layouts,
            r \in {AbsentRecs}}
    \cup UNION {{[def |-> [present |-> TRUE, fields |-> f],
                  recs |-> [present |-> TRUE, records |-> <<GoodRecord(Len(f))>>]],
                 [def |-> [present |-> TRUE, fields |-> f],
                  recs |-> [present |-> TRUE, records |-> <<BadRecord(Len(f))>>]]} :
                f \in Layouts}

Archive(c1, c2) ==
    [defs |-> <<c1.def, c2.def>>, recs |-> <<c1.recs, c2.recs>>]

LayoutArchives == {Archive(c1, c2) : c1, c2 \in LayoutCaches}

\* the items of a dictionary or a record: a tag, with or without the attribute v
Tags == {"s", "n", "b", "m", "d", "x"}
DictTexts == {"1", "abc"}
DictItems ==
    {[tag |-> t, v |-> l] : t \in Tags \ {"x"}, l \in DictTexts}
    \cup {[tag |-> t] : t \in Tags \ {"x"}}
RecordItems ==
    {[tag |-> t, v |-> l] : t \in Tags, l \in IntTexts \cup {"abc"}}
    \cup {[tag |-> t] : t \in Tags}

\* cache 1 with the single field ProductName, with or without a dictionary,
\* and one record of one entry
DecodeFields ==
    {<<[name |-> "ProductName"]>>}
    \cup {<<[name |-> "ProductName", sharedItems |-> s]>> : s \in SeqsUpTo(DictItems, MaxDict)}

DecodeArchives ==
    {Archive([def |-> [present |-> TRUE, fields |-> f],
              recs |-> [present |-> TRUE, records |-> << <<e>> >>]],
             [def |-> AbsentDef, recs |-> AbsentRecs]) :
       f \in DecodeFields, e \in RecordItems}

(***************************************************************************)
(* The combiner's files                                                    *)
(***************************************************************************)
\* A file name is a stem and a suffix; the stems below are in code-point order,
\* which is the order sorted() gives paths of one directory.
StemOrder == <<"ALL", "FY24Q1", "FY24Q2", "UFDUR_Master">>
StemRank(stem) == CHOOSE i \in DOMAIN StemOrder : StemOrder[i] = stem

PeriodNames == {[stem |-> "FY24Q1", suffix |-> "_combined.csv"],
                [stem |-> "FY24Q2", suffix |-> "_combined.csv"]}
OutputNames == {[stem |-> "UFDUR_Master", suffix |-> ".csv"],
                [stem |-> "ALL", suffix |-> "_combined.csv"]}
Names == PeriodNames \cup OutputNames

Dirs == {"data/processed", "out"}
Paths == [dir : Dirs, name : Names]

default_data_dir == "data/processed"
default_output_file == [dir |-> "data/processed",
                        name |-> [stem |-> "UFDUR_Master", suffix |-> ".csv"]]

\* glob("*_combined.csv") on a name
MatchesGlob(name) == name.suffix = "_combined.csv"
\* "Master" in f.name
ContainsMaster(name) == name.stem = "UFDUR_Master"

Missing == [exists |-> FALSE]
FileOf(csv) == [exists |-> TRUE, csv |-> csv]

\* the names in directory d, as a list in sorted() order
RECURSIVE SortedNames(_)
SortedNames(S) ==
    IF S = {} THEN <<>>
    ELSE LET n == CHOOSE m \in S : \A k \in S : StemRank(m.stem) <= StemRank(k.stem)
         IN  <<n>> \o SortedNames(S \ {n})

(***************************************************************************)
(* pandas on CSV text                                                      *)
(***************************************************************************)
FloatTexts == {ToString(i) \o ".0" : i \in IntRange}
FloatOf(s) == CHOOSE i \in IntRange : ToString(i) \o ".0" = s

\* one cell as pd.read_csv reads it: blank is NaN, a number is a float
ReadCsvCell(text) ==
    IF text = "" THEN NaN
    ELSE IF text \in FloatTexts THEN Float(FloatOf(text))
    ELSE IF text \in IntTexts THEN Float(IntOf(text))
    ELSE Str(text)

ReadCsv(csv) ==
    [columns |-> csv.header,
     rows |-> [r \in DOMAIN csv.lines |->
                [j \in DOMAIN csv.lines[r] |-> ReadCsvCell(csv.lines[r][j])]]]

\* pd.to_numeric(value, errors='coerce')
ToNumeric(v) ==
    CASE v.t = "float" -> v
      [] v.t = "str" -> IF v.s \in FloatTexts THEN Float(FloatOf(v.s))
                        ELSE IF v.s \in IntTexts THEN Float(IntOf(v.s))
                        ELSE NaN
      [] OTHER -> NaN

RECURSIVE ConcatAll(_)
ConcatAll(dfs) ==
    IF Len(dfs) = 1 THEN Ok(Head(dfs))
    ELSE LET rest == ConcatAll(Tail(dfs))
         IN  IF rest.ok THEN Concat(Head(dfs), rest.val) ELSE rest

\* the position of the (first) column labelled col
ColumnOf(df, col) == Head(PositionsOf(df.columns, col))

RECURSIVE SumSkipNaN(_)
SumSkipNaN(vs) ==
    IF vs = <<>> THEN 0
    ELSE (IF Head(vs).t = "float" THEN Head(vs).n ELSE 0) + SumSkipNaN(Tail(vs))

\* master_df.groupby('Qtr').agg({'ThirtyDayEquiv': 'sum', 'ProductName': 'count'}):
\* the groups are the non-null Qtr values, sum skips NaN, count counts non-null cells
QuarterSummary(df) ==
    LET qtr == ColumnOf(df, "Qtr")
        product == ColumnOf(df, "ProductName")
        tde == ColumnOf(df, "ThirtyDayEquiv")
        keys == {df.rows[r][qtr] : r \in DOMAIN df.rows} \ {NaN, NoneV}
        Group(k) == SelectSeq(df.rows, LAMBDA row : row[qtr] = k)
    IN  [k \in keys |->
           [Records |-> Len(SelectSeq(Group(k), LAMBDA row : row[product] \notin {NaN, NoneV})),
            ThirtyDayEquiv |-> SumSkipNaN([i \in DOMAIN Group(k) |-> Group(k)[i][tde]])]]

(***************************************************************************)
(* combine_quarters                                                        *)
(***************************************************************************)
\* the files the merge reads: *_combined.csv in data_dir, without "Master" in the name
CombinedFiles(f, data_dir) ==
    IF data_dir \notin f.dirs THEN {}
    ELSE {n \in Names : /\ f.files[[dir |-> data_dir, name |-> n]].exists
                        /\ MatchesGlob(n)
                        /\ ~ContainsMaster(n)}

NoSummary == [printed |-> FALSE]

\* the master frame of a merge that has files to read
MasterDf(f, data_dir) ==
    LET files == SortedNames(CombinedFiles(f, data_dir))
    IN  ConcatAll([i \in DOMAIN files |->
                     ReadCsv(f.files[[dir |-> data_dir, name |-> files[i]]].csv)])

\* combine_quarters(data_dir, output_file) does nothing but print and return None
NothingToMerge(f, data_dir, output_file) ==
    [fs |-> f, ret |-> [kind |-> "None"], summary |-> NoSummary]

\* combine_quarters(data_dir, output_file) from line 37 on
Merge(f, data_dir, output_file) ==
    LET master_df == MasterDf(f, data_dir)
    IN  IF ~master_df.ok
        THEN [fs |-> f, ret |-> [kind |-> "raised"], summary |-> NoSummary]
        ELSE LET written ==
                   [dirs |-> f.dirs \cup {output_file.dir},
                    files |-> [f.files EXCEPT ![output_file] = FileOf(ToCsv(master_df.val))]]
                 coerced ==
                   [columns |-> master_df.val.columns,
                    rows |-> [r \in DOMAIN master_df.val.rows |->
                               [j \in DOMAIN master_df.val.columns |->
                                  IF master_df.val.columns[j] = "ThirtyDayEquiv"
                                  THEN ToNumeric(master_df.val.rows[r][j])
                                  ELSE master_df.val.rows[r][j]]]]
             IN  [fs |-> written,
                  ret |-> [kind |-> "table", df |-> coerced],
                  summary |-> [printed |-> TRUE, by_qtr |-> QuarterSummary(coerced)]]

\* combine_quarters without the `if not combined_files` return: an empty master is written
CombineQuartersNoGuard(f, data_dir, output_file) ==
    IF data_dir \notin f.dirs THEN NothingToMerge(f, data_dir, output_file)
    ELSE IF CombinedFiles(f, data_dir) = {}
    THEN [fs |-> [dirs |-> f.dirs \cup {output_file.dir},
                  files |-> [f.files EXCEPT ![output_file] =
                               FileOf([header |-> all_columns, lines |-> <<>>])]],
          ret |-> [kind |-> "None"], summary |-> NoSummary]
    ELSE Merge(f, data_dir, output_file)

CombineQuarters(f, data_dir, output_file) ==
    IF data_dir \notin f.dirs THEN NothingToMerge(f, data_dir, output_file)
    ELSE IF CombinedFiles(f, data_dir) = {} THEN NothingToMerge(f, data_dir, output_file)
    ELSE Merge(f, data_dir, output_file)

(***************************************************************************)
(* check_and_download and its tracker                                      *)
(***************************************************************************)
\* what find_ufdur_links returns for a page: one entry per link, in page order;
\* two links may end in the same file name
Links == {[filename |-> "UFDUR_FY24Q1.xlsx", quarter |-> "FY24Q1"],
          [filename |-> "UFDUR_FY24Q2.xlsx", quarter |-> "FY24Q2"]}

NoTracker == [exists |-> FALSE]

\* load_tracker(): the "downloaded" list of the tracker file, [] without the file
LoadTracker(tf) == IF tf.exists THEN tf.downloaded ELSE <<>>

\* save_tracker(tracker)
SaveTracker(downloaded) == [exists |-> TRUE, downloaded |-> downloaded]

\* the for loop without the `filename in tracker['downloaded']` test
RECURSIVE DownloadLoopNoCheck(_, _, _, _, _)
DownloadLoopNoCheck(ufdur_files, outcomes, downloaded, new_files, attempts) ==
    IF ufdur_files = <<>>
    THEN [downloaded |-> downloaded, new_files |-> new_files, attempts |-> attempts]
    ELSE LET file_info == Head(ufdur_files)
             ok == Head(outcomes)
             tried == Append(attempts, [filename |-> file_info.filename, ok |-> ok])
         IN  IF ok
             THEN DownloadLoopNoCheck(Tail(ufdur_files), Tail(outcomes),
                                      Append(downloaded, file_info.filename),
                                      Append(new_files, file_info), tried)
             ELSE DownloadLoopNoCheck(Tail(ufdur_files), Tail(outcomes),
                                      downloaded, new_files, tried)

\* the for loop of check_and_download; outcomes[i] is whether download_file
\* succeeds for the i-th link, attempts lists the calls of download_file
RECURSIVE DownloadLoop(_, _, _, _, _)
DownloadLoop(ufdur_files, outcomes, downloaded, new_files, attempts) ==
    IF ufdur_files = <<>>
    THEN [downloaded |-> downloaded, new_files |-> new_files, attempts |-> attempts]
    ELSE LET file_info == Head(ufdur_files)
             ok == Head(outcomes)
             tried == Append(attempts, [filename |-> file_info.filename, ok |-> ok])
         IN  IF file_info.filename \in Range(downloaded)
             THEN DownloadLoop(Tail(ufdur_files), Tail(outcomes), downloaded, new_files, attempts)
             ELSE IF ok
             THEN DownloadLoop(Tail(ufdur_files), Tail(outcomes),
                               Append(downloaded, file_info.filename),
                               Append(new_files, file_info), tried)
             ELSE DownloadLoop(Tail(ufdur_files), Tail(outcomes), downloaded, new_files, tried)

\* check_and_download(): page.fetched is whether the page request succeeded
CheckAndDownload(tf, page, outcomes) ==
    IF ~page.fetched \/ page.links = <<>>
    THEN [tracker_file |-> tf, new_files |-> <<>>, attempts |-> <<>>]
    ELSE LET l == DownloadLoop(page.links, outcomes, LoadTracker(tf), <<>>, <<>>)
         IN  [tracker_file |-> SaveTracker(l.downloaded),
              new_files |-> l.new_files,
              attempts |-> l.attempts]

(***************************************************************************)
(* States before any operation                                             *)
(***************************************************************************)
NoArchive == Archive([def |-> AbsentDef, recs |-> AbsentRecs],
                     [def |-> AbsentDef, recs |-> AbsentRecs])

ExtractIdle ==
    /\ op = "none"
    /\ ret = [kind |-> "None"]
    /\ warned = FALSE
    /\ out_csv = NoFile

NotCalled == [called |-> FALSE]
EmptyFs == [dirs |-> {}, files |-> [p \in Paths |-> Missing]]

CombineIdle == fs = EmptyFs /\ comb = NotCalled

NoRun == [ran |-> FALSE, ever_downloaded |-> {}, ever_extract_failed |-> {}]

DownloadIdle == tracker_file = NoTracker /\ run = NoRun

(***************************************************************************)
(* The extractor's operations                                              *)
(***************************************************************************)
InitExtract ==
    /\ xlsx \in LayoutArchives
    /\ ExtractIdle
    /\ CombineIdle
    /\ DownloadIdle

InitDecode ==
    /\ xlsx \in DecodeArchives
    /\ ExtractIdle
    /\ CombineIdle
    /\ DownloadIdle

\* detect_cache_types(xlsx)
DetectCacheTypesCall ==
    /\ op = "none"
    /\ LET d == DetectCacheTypes(xlsx)
       IN  /\ ret' = [kind |-> "roles", main |-> d.main, outliers |-> d.outliers]
           /\ warned' = d.warning
    /\ op' = "detect_cache_types"
    /\ UNCHANGED <<xlsx, out_csv, combine_vars, download_vars>>

\* extract_pivot_cache(xlsx, cache_num)
ExtractPivotCacheCall ==
    /\ op = "none"
    /\ \E cache_num \in {1, 2} :
         LET e == ExtractPivotCache(xlsx, cache_num)
         IN  ret' = IF e.ok THEN [kind |-> "table", cache |-> cache_num, df |-> e.val]
                    ELSE [kind |-> "raised", cache |-> cache_num, exc |-> e.exc]
    /\ op' = "extract_pivot_cache"
    /\ UNCHANGED <<xlsx, warned, out_csv, combine_vars, download_vars>>

\* extract_ufdur(xlsx, output_prefix)
ExtractUfdurCall ==
    /\ op = "none"
    /\ LET e == ExtractUfdur(xlsx)
       IN  /\ ret' = e.ret
           /\ warned' = e.warning
           /\ out_csv' = e.csv
    /\ op' = "extract_ufdur"
    /\ UNCHANGED <<xlsx, combine_vars, download_vars>>

NextExtract == DetectCacheTypesCall \/ ExtractUfdurCall
SpecExtract == InitExtract /\ [][NextExtract]_vars

NextDecode == ExtractPivotCacheCall
SpecDecode == InitDecode /\ [][NextDecode]_vars

(***************************************************************************)
(* The combiner's operations                                               *)
(***************************************************************************)
\* a row of a period file as extract_ufdur writes it
PeriodRow(qtr, product, tde) ==
    [j \in DOMAIN all_columns |->
       CASE all_columns[j] = "Qtr" -> qtr
         [] all_columns[j] = "ClaimState" -> "AL"
         [] all_columns[j] = "ProductName" -> product
         [] all_columns[j] = "ThirtyDayEquiv" -> tde
         [] all_columns[j] = "Source" -> "MAIN"
         [] OTHER -> ""]

PeriodRows ==
    {PeriodRow("FY24Q1", "DrugX", "2.0"),
     PeriodRow("FY24Q1", "DrugX", "bad"),
     PeriodRow("FY24Q2", "", "3.0")}

PeriodTables == {[header |-> all_columns, lines |-> l] : l \in SeqsUpTo(PeriodRows, MaxRows)}

\* a master file left by an earlier run
OldMaster == [header |-> all_columns, lines |-> <<PeriodRow("FY23Q4", "DrugW", "1.0")>>]

InitialFs ==
    {EmptyFs}
    \cup {[dirs |-> {default_data_dir},
           files |-> [p \in Paths |->
                        IF p.dir # default_data_dir THEN Missing
                        ELSE IF p.name \in PeriodNames THEN period[p.name]
                        ELSE IF p = default_output_file THEN master
                        ELSE Missing]] :
            period \in [PeriodNames -> {Missing} \cup {FileOf(t) : t \in PeriodTables}],
            master \in {Missing, FileOf(OldMaster)}}

InitCombine ==
    /\ fs \in InitialFs
    /\ comb = NotCalled
    /\ xlsx = NoArchive
    /\ ExtractIdle
    /\ DownloadIdle

\* the output_file arguments tried: the default, a name the glob matches, another folder
OutputFiles ==
    {default_output_file,
     [dir |-> "data/processed", name |-> [stem |-> "ALL", suffix |-> "_combined.csv"]],
     [dir |-> "out", name |-> [stem |-> "UFDUR_Master", suffix |-> ".csv"]]}

\* the rows the merge would write
MergedRows(f, data_dir) ==
    IF CombinedFiles(f, data_dir) = {} THEN 0
    ELSE LET m == MasterDf(f, data_dir) IN IF m.ok THEN Len(m.val.rows) ELSE 0

\* combine_quarters(data_dir, output_file)
CombineQuartersCall ==
    /\ \E data_dir \in Dirs, output_file \in OutputFiles :
         /\ MergedRows(fs, data_dir) <= MaxMasterRows
         /\ LET c == CombineQuarters(fs, data_dir, output_file)
            IN  /\ fs' = c.fs
                /\ comb' = [called |-> TRUE, data_dir |-> data_dir,
                            output_file |-> output_file,
                            ret |-> c.ret, summary |-> c.summary]
    /\ UNCHANGED <<extract_vars, download_vars>>

\* step 3 of run_pipeline: with new files the merge is always called; without,
\* only when data/processed holds a period file
RunPipelineCombine ==
    /\ \E new_files \in BOOLEAN :
         LET existing_files == CombinedFiles(fs, default_data_dir)
         IN  IF new_files \/ existing_files # {}
             THEN /\ MergedRows(fs, default_data_dir) <= MaxMasterRows
                  /\ LET c == CombineQuarters(fs, default_data_dir, default_output_file)
                     IN  /\ fs' = c.fs
                         /\ comb' = [called |-> TRUE, data_dir |-> default_data_dir,
                                     output_file |-> default_output_file,
                                     ret |-> c.ret, summary |-> c.summary]
             ELSE /\ fs' = fs
                  /\ comb' = NotCalled
    /\ UNCHANGED <<extract_vars, download_vars>>

NextCombine == CombineQuartersCall \/ RunPipelineCombine
SpecCombine == InitCombine /\ [][NextCombine]_vars

(***************************************************************************)
(* The downloader's operations                                             *)
(***************************************************************************)
InitDownload ==
    /\ tracker_file = NoTracker
    /\ run = NoRun
    /\ xlsx = NoArchive
    /\ ExtractIdle
    /\ CombineIdle

Pages ==
    {[fetched |-> FALSE, links |-> <<>>]}
    \cup {[fetched |-> TRUE, links |-> l] : l \in SeqsUpTo(Links, MaxLinks)}

\* steps 1 and 2 of run_pipeline: check_and_download(), then extract_ufdur on each
\* new file inside try/except; extract_failed are the files whose extraction raised
RunPipelineDownload ==
    /\ \E page \in Pages :
       \E outcomes \in [DOMAIN page.links -> BOOLEAN] :
         LET c == CheckAndDownload(tracker_file, page, outcomes)
             names == {c.new_files[i].filename : i \in DOMAIN c.new_files}
         IN  \E extract_failed \in SUBSET names :
               /\ tracker_file' = c.tracker_file
               /\ run' = [ran |-> TRUE,
                          links |-> page.links,
                          loaded |-> LoadTracker(tracker_file),
                          new_files |-> c.new_files,
                          attempts |-> c.attempts,
                          ever_downloaded |->
                              run.ever_downloaded
                              \cup {c.attempts[i].filename :
                                      i \in {k \in DOMAIN c.attempts : c.attempts[k].ok}},
                          ever_extract_failed |-> run.ever_extract_failed \cup extract_failed]
    /\ UNCHANGED <<extract_vars, combine_vars>>

NextDownload == RunPipelineDownload
SpecDownload == InitDownload /\ [][NextDownload]_vars

(***************************************************************************)
(* Properties of the extractor                                             *)
(***************************************************************************)
\* cache c of the archive has a field named ClaimState
DefHasClaimState(c) ==
    /\ xlsx.defs[c].present
    /\ \E i \in DOMAIN xlsx.defs[c].fields : xlsx.defs[c].fields[i].name = "ClaimState"

\* the Source cells of the returned table
SourceCells == {ret.df.rows[r][Len(ret.df.columns)] : r \in DOMAIN ret.df.rows}

\* C1: when exactly one of the two cache extractions of extract_ufdur succeeds, a
\* table holding the rows of that side is written and returned; nothing is
\* returned only when both extractions fail.
C1_PartialTableEmitted ==
    op = "extract_ufdur" =>
        LET d == DetectCacheTypes(xlsx)
            m == ExtractPivotCache(xlsx, d.main)
            o == ExtractPivotCache(xlsx, d.outliers)
        IN  /\ (m.ok /\ ~o.ok) =>
                 /\ ret.kind = "table" /\ out_csv.written
                 /\ Len(ret.df.rows) = Len(m.val.rows)
                 /\ SourceCells \subseteq {Str("MAIN")}
            /\ (~m.ok /\ o.ok) =>
                 /\ ret.kind = "table" /\ out_csv.written
                 /\ Len(ret.df.rows) = Len(o.val.rows)
                 /\ SourceCells \subseteq {Str("OUTLIERS")}
            /\ ret.kind = "None" => (~m.ok /\ ~o.ok)

\* C2: every table extract_ufdur emits (returns and writes) has exactly the 14
\* canonical columns, each once and in the canonical order, whatever the columns
\* of the two caches are.
C2_CanonicalColumns ==
    (op = "extract_ufdur" /\ ret.kind = "table") =>
        /\ ret.df.columns = all_columns
        /\ out_csv.written
        /\ out_csv.csv.header = all_columns

\* C3 as stated: whichever cache has ClaimState among its fields is returned as
\* main and the other as outliers, whatever the other cache holds.
C3_ClaimStateCacheIsMain ==
    op = "detect_cache_types" =>
        \A c \in {1, 2} : DefHasClaimState(c) => (ret.main = c /\ ret.outliers = 3 - c)

\* C3 as amended: cache 1 is main whenever it has ClaimState, whatever cache 2
\* holds; cache 2 is main when it has ClaimState and cache 1 has not (or is absent).
C3_ClaimStatePrefersCache1 ==
    op = "detect_cache_types" =>
        /\ DefHasClaimState(1) => (ret.main = 1 /\ ret.outliers = 2)
        /\ (DefHasClaimState(2) /\ ~DefHasClaimState(1)) => (ret.main = 2 /\ ret.outliers = 1)

\* detection has run on an archive whose two caches both have ClaimState
C3_BothHaveClaimState ==
    /\ op = "detect_cache_types"
    /\ DefHasClaimState(1) /\ DefHasClaimState(2)
    /\ ret.main = 1

\* C4: detect_cache_types warns exactly when neither cache has ClaimState, and
\* then returns main = 1, outliers = 2.
C4_FallbackWarns ==
    op = "detect_cache_types" =>
        /\ warned <=> (~DefHasClaimState(1) /\ ~DefHasClaimState(2))
        /\ (~DefHasClaimState(1) /\ ~DefHasClaimState(2)) => (ret.main = 1 /\ ret.outliers = 2)

\* detection has fallen back on two caches that are present and lack ClaimState
C4_FellBack ==
    /\ op = "detect_cache_types"
    /\ xlsx.defs[1].present /\ xlsx.defs[2].present
    /\ ~DefHasClaimState(1) /\ ~DefHasClaimState(2)
    /\ warned /\ ret.main = 1 /\ ret.outliers = 2

(***************************************************************************)
(* Properties of the decoder                                               *)
(***************************************************************************)
\* the typed value the tag-to-type mapping gives an entry: string -> string,
\* numeric -> number, boolean -> true iff the literal is "1", missing -> null,
\* any other tag -> the raw literal
MappedValue(item) ==
    CASE item.tag = "s" -> Ok(Get(item))
      [] item.tag = "n" -> IF "v" \in DOMAIN item /\ item.v \in IntTexts
                           THEN Ok(Float(IntOf(item.v)))
                           ELSE Raise("ValueError")
      [] item.tag = "b" -> Ok(Bool("v" \in DOMAIN item /\ item.v = "1"))
      [] item.tag = "m" -> Ok(NoneV)
      [] OTHER -> Ok(Get(item))

\* the one field, its dictionary and the one record entry of a decoding run
TheField == xlsx.defs[1].fields[1]
HasDict == "sharedItems" \in DOMAIN TheField
DictMaps == HasDict => \A i \in DOMAIN TheField.sharedItems : MappedValue(TheField.sharedItems[i]).ok
TheEntry == xlsx.recs[1].records[1][1]
Decoded == op = "extract_pivot_cache" /\ ret.cache = 1

\* C8: an inline record entry decodes to the value the mapping gives its tag and
\* literal, and so does a dictionary entry (read through index 0).
C8_SameMappingInline ==
    (Decoded /\ DictMaps) =>
        /\ TheEntry.tag # "x" =>
             IF MappedValue(TheEntry).ok
             THEN ret.kind = "table" /\ ret.df.rows[1][1] = MappedValue(TheEntry).val
             ELSE ret.kind = "raised"
        /\ (TheEntry = [tag |-> "x", v |-> "0"] /\ HasDict /\ TheField.sharedItems # <<>>) =>
             (ret.kind = "table"
              /\ ret.df.rows[1][1] = MappedValue(TheField.sharedItems[1]).val)

\* C9: a dictionary-index entry resolves to the dictionary value at its position
\* when 0 <= index < length, and to null for every other integer index; the
\* decode does not fail on it.
C9_IndexResolution ==
    (Decoded /\ DictMaps /\ TheEntry.tag = "x"
       /\ "v" \in DOMAIN TheEntry /\ TheEntry.v \in IntTexts) =>
        LET idx == IntOf(TheEntry.v)
        IN  /\ ret.kind = "table"
            /\ ret.df.rows[1][1] =
                 IF HasDict /\ 0 <= idx /\ idx < Len(TheField.sharedItems)
                 THEN MappedValue(TheField.sharedItems[idx + 1]).val
                 ELSE NoneV

(***************************************************************************)
(* Properties of the combiner                                              *)
(***************************************************************************)
\* C5: two combine_quarters calls in a row with the same data_dir and output_file
\* leave the same master file: the second call rewrites what the first wrote.
C5_MergeTwiceSameMaster ==
    [][(/\ comb.called /\ comb'.called
        /\ comb'.data_dir = comb.data_dir /\ comb'.output_file = comb.output_file
        /\ comb.ret.kind = "table")
       => (comb'.ret.kind = "table"
           /\ fs'.files[comb'.output_file] = fs.files[comb.output_file])]_vars

\* C6: a combine_quarters call that finds no period file (or no data_dir) returns
\* None and leaves every file and folder as it was; so does a run_pipeline that
\* does not call it.
C6_NothingToMergeKeepsFiles ==
    [][IF comb'.called
       THEN CombinedFiles(fs, comb'.data_dir) = {} => (fs' = fs /\ comb'.ret.kind = "None")
       ELSE fs' = fs]_vars

\* a call found nothing to merge and the earlier master is still in place
C6_OldMasterKept ==
    /\ comb.called
    /\ comb.ret.kind = "None"
    /\ fs.files[comb.output_file] = FileOf(OldMaster)

\* the number a ThirtyDayEquiv text adds to the sum: non-numeric and blank add zero
NumberOrZero(text) ==
    IF text \in FloatTexts THEN FloatOf(text)
    ELSE IF text \in IntTexts THEN IntOf(text)
    ELSE 0

RECURSIVE SumOf(_)
SumOf(ns) == IF ns = <<>> THEN 0 ELSE Head(ns) + SumOf(Tail(ns))

\* the lines of the period files a call reads, in file-name order
MergedLines(f, data_dir) ==
    LET files == SortedNames(CombinedFiles(f, data_dir))
    IN  Flatten([i \in DOMAIN files |-> f.files[[dir |-> data_dir, name |-> files[i]]].csv.lines])

\* C7: the summary of a merge gives, per Qtr, the count of all merged rows with
\* that Qtr and the sum of their numeric ThirtyDayEquiv; the written master and
\* the returned table hold the ThirtyDayEquiv values as they were read.
C7_SummaryAndVerbatimRows ==
    [][(comb'.called /\ comb'.ret.kind = "table")
       => LET merged == MergedLines(fs, comb'.data_dir)
              qtr == Head(PositionsOf(all_columns, "Qtr"))
              tde == Head(PositionsOf(all_columns, "ThirtyDayEquiv"))
              qtrs == {merged[r][qtr] : r \in DOMAIN merged} \ {""}
              Rows(q) == SelectSeq(merged, LAMBDA line : line[qtr] = q)
              by_qtr == comb'.summary.by_qtr
          IN  /\ fs'.files[comb'.output_file].csv.lines = merged
              /\ \A q \in qtrs :
                   /\ Str(q) \in DOMAIN by_qtr
                   /\ by_qtr[Str(q)].Records = Len(Rows(q))
                   /\ by_qtr[Str(q)].ThirtyDayEquiv =
                        SumOf([i \in DOMAIN Rows(q) |-> NumberOrZero(Rows(q)[i][tde])])
              /\ \A r \in DOMAIN merged :
                   CsvCell(comb'.ret.df.rows[r][tde]) = merged[r][tde]]_vars

(***************************************************************************)
(* Properties of the downloader                                            *)
(***************************************************************************)
FilenamesOf(files) == [i \in DOMAIN files |-> files[i].filename]

\* C10: after every run the tracker lists no file twice and only files some
\* download fetched; download_file is not called for a file the tracker holds;
\* the returned new files are the files fetched in this run, so none is a file
\* whose extraction failed in an earlier run.
C10_TrackerDiscipline ==
    [][run'.ran
       => LET before == LoadTracker(tracker_file)
              after == LoadTracker(tracker_file')
              attempts == run'.attempts
          IN  /\ NoDup(after)
              /\ Range(after) \subseteq run'.ever_downloaded
              /\ \A i \in DOMAIN attempts :
                   /\ attempts[i].filename \notin Range(before)
                   /\ \A j \in 1..(i - 1) :
                        attempts[j].ok => attempts[j].filename # attempts[i].filename
              /\ FilenamesOf(run'.new_files) =
                   FilenamesOf(SelectSeq(attempts, LAMBDA a : a.ok))
              /\ \A i \in DOMAIN run'.new_files :
                   run'.new_files[i].filename \notin run.ever_extract_failed]_vars

\* a run fetched a new file while the page also linked a file whose extraction
\* had failed after an earlier run
C10_FailedFileNotOfferedAgain ==
    /\ run.ran
    /\ run.new_files # <<>>
    /\ \E f \in run.ever_extract_failed :
         /\ f \in Range(FilenamesOf(run.links))
         /\ f \in Range(run.loaded)
         /\ f \notin Range(FilenamesOf(run.new_files))

====
